---- MODULE Spec2Model ----
(***************************************************************************)
(* Catena (sonic-technology/catena): the Handler chain builder and the     *)
(* Express runner it produces (src/src/index.ts), with the error table of  *)
(* src/utils/error.ts.                                                     *)
(*                                                                         *)
(* One handler is built by middleware(), validate(), resolve() and         *)
(* transform(); express() yields the runner, and an execution of the       *)
(* runner walks the chain.  An execution is suspended at every await: the  *)
(* continuation that runs when the awaited element settles is one action.  *)
(* The elements (user middlewares, resolver, transformer), the request,    *)
(* the zod engine and the Express response are the environment: their      *)
(* behaviour is drawn from small sets.                                     *)
(***************************************************************************)
EXTENDS Integers, Sequences, FiniteSets, TLC

VARIABLES chain, resolver, transformer, execs

vars == <<chain, resolver, transformer, execs>>

\* _resolver and _transformer hold the function that was passed to resolve()
\* and transform(), or undefined
NoFn == "undefined"

\* the functions a caller passes to resolve() and transform()
Fn1 == "fn1"

Fn2 == "fn2"

Fns == {Fn1, Fn2}

\* this._resolver and this._transformer read as conditions
HasResolver == resolver # NoFn

HasTransformer == transformer # NoFn

----------------------------------------------------------------------------
(* Bounds *)

\* the longest chain that is registered
MaxSteps == 2

----------------------------------------------------------------------------
(* Values *)

\* validate(type, schema): type is one of the four request locations
Locations == {"body", "query", "headers", "params"}

\* keys and values of the context objects the middlewares return
Keys == {"name", "age"}

CtxVals == {"v1", "v2"}

Absent == "absent"

\* a plain object: each key is absent or holds a value
Objects == [Keys -> CtxVals \cup {Absent}]

EmptyObj == [k \in Keys |-> Absent]

\* the values a function of the user's returns, by JavaScript type
JsVal(t, o) == [t |-> t, o |-> o]

Undefined == JsVal("undefined", EmptyObj)

Null == JsVal("null", EmptyObj)

ArrayVal == JsVal("array", EmptyObj)

PrimVal == JsVal("prim", EmptyObj)

Obj(o) == JsVal("object", o)

\* typeof v
TypeOf(v) ==
    CASE v.t = "undefined" -> "undefined"
      [] v.t = "prim" -> "string"
      [] OTHER -> "object"

\* Array.isArray(v)
IsArray(v) == v.t = "array"

\* what a middleware may return
MiddlewareValues == {Undefined, Null, ArrayVal, PrimVal} \cup {Obj(o) : o \in Objects}

\* what the resolver may return (ResolvedData)
ResolverValues == {Undefined, Obj(EmptyObj)}

\* what the transformer may return
TransformerValues == {Undefined, Null, ArrayVal, PrimVal, Obj(EmptyObj)}

----------------------------------------------------------------------------
(* Errors: src/utils/error.ts and class ValidationError *)

OK == 200

BAD_REQUEST == 400

UNAUTHORIZED == 401

FORBIDDEN == 403

NOT_FOUND == 404

INTERNAL_SERVER_ERROR == 500

\* enum HTTPStatus
HTTPStatus == {OK, BAD_REQUEST, UNAUTHORIZED, FORBIDDEN, NOT_FOUND, INTERNAL_SERVER_ERROR}

\* faulty variant: two rows of the table are swapped
HTTPStatusTextSwapped(status) ==
    CASE status = OK -> "OK"
      [] status = BAD_REQUEST -> "Bad Request"
      [] status = UNAUTHORIZED -> "Forbidden"
      [] status = FORBIDDEN -> "Unauthorized"
      [] status = NOT_FOUND -> "Not Found"
      [] status = INTERNAL_SERVER_ERROR -> "Internal Server Error"
      [] OTHER -> "undefined"

\* faulty variant: a status that is no key of the table gets the text of 500
HTTPStatusTextFallback(status) ==
    CASE status = OK -> "OK"
      [] status = BAD_REQUEST -> "Bad Request"
      [] status = UNAUTHORIZED -> "Unauthorized"
      [] status = FORBIDDEN -> "Forbidden"
      [] status = NOT_FOUND -> "Not Found"
      [] OTHER -> "Internal Server Error"

\* HTTPStatusText[status]; a status that is no key of the table reads undefined
HTTPStatusText(status) ==
    CASE status = OK -> "OK"
      [] status = BAD_REQUEST -> "Bad Request"
      [] status = UNAUTHORIZED -> "Unauthorized"
      [] status = FORBIDDEN -> "Forbidden"
      [] status = NOT_FOUND -> "Not Found"
      [] status = INTERNAL_SERVER_ERROR -> "Internal Server Error"
      [] OTHER -> "undefined"

\* an error object: its class, and the fields the classes carry
\* (HTTPError.status and ValidationError.statusCode are both `status` here)
Err(cls, status, message, errors, location) ==
    [cls |-> cls, status |-> status, message |-> message, errors |-> errors,
     location |-> location]

\* new HTTPError(status, message)
HTTPError(status, message) == Err("HTTPError", status, message, <<>>, Absent)

\* new Error(message), and every other throwable that is no HTTPError
PlainError(message) == Err("Error", 0, message, <<>>, Absent)

----------------------------------------------------------------------------
(* The request and the zod engine (its parse contract) *)

\* the value of one request location: its typeof, and which value it is
ReqVal(t, v) == [t |-> t, v |-> v]

\* a location that was never filled in (no body parser): typeof is "undefined"
ReqUndefined == ReqVal("undefined", "none")

\* object-shaped values: one the schema accepts, one with one violation,
\* one with two violations
ReqValid == ReqVal("object", "valid")

ReqBad1 == ReqVal("object", "bad1")

ReqBad2 == ReqVal("object", "bad2")

\* an object-shaped value the schema accepts and transforms (its output
\* differs from the input), and that output
ReqRaw == ReqVal("object", "raw")

ReqParsed == ReqVal("object", "parsed")

\* an object-shaped value whose schema has an asynchronous transform
ReqRawAsync == ReqVal("object", "rawAsync")

ReqValues == {ReqUndefined, ReqValid, ReqBad1, ReqBad2, ReqRaw, ReqRawAsync}

\* a ZodIssue; the fields besides message and path are summed up in code
ZodIssue(code, message, path) == [code |-> code, message |-> message, path |-> path]

\* the issues the schema finds in a value, in zod's order
SchemaIssues(value) ==
    CASE value.v = "bad1" -> <<ZodIssue("invalid_type", "Required", <<"user">>)>>
      [] value.v = "bad2" ->
            <<ZodIssue("invalid_type", "Required", <<"user", "username">>),
              ZodIssue("invalid_string", "Invalid uuid", <<>>)>>
      [] OTHER -> <<>>

\* the output of the schema for a value it accepts: the value, transformed
SchemaOutput(value) == IF value.v \in {"raw", "rawAsync"} THEN ReqParsed ELSE value

\* what zod throws when the synchronous parse meets an asynchronous transform
AsyncTransformError ==
    PlainError("Asynchronous transform encountered during synchronous parse operation")

\* schema.parse(value): returns the output, or throws a ZodError holding the
\* issues, or throws an Error when the schema needs parseAsync
SchemaParse(value) ==
    [success |-> SchemaIssues(value) = <<>> /\ value.v # "rawAsync",
     issues |-> SchemaIssues(value),
     needsAsync |-> value.v = "rawAsync",
     output |-> SchemaOutput(value)]

\* the schema argument of validate(): a mapping from field names to field
\* schemas, or the zod object made from one (z.object(mapping)); def tells
\* whether the mapping has a field named _def
Schema(form, def) == [form |-> form, def |-> def]

Mapping == Schema("mapping", FALSE)

MappingWithDef == Schema("mapping", TRUE)

\* a middleware step has no schema
NoSchema == Schema("none", FALSE)

\* z.object(mapping)
ZObject(schema) == Schema("object", schema.def)

Schemas == {Mapping, MappingWithDef, ZObject(Mapping), ZObject(MappingWithDef)}

\* isZodObject: '_def' in object; every zod object has the property _def
IsZodObject(schema) == schema.form = "object" \/ schema.def

\* the schema that is asked to parse: the argument when it is taken for a
\* zod object, else z.object(schema)
UsedSchema(schema) == IF IsZodObject(schema) THEN schema ELSE ZObject(schema)

\* only a zod object has the method parse
HasParse(schema) == schema.form = "object"

\* calling schema.parse on a mapping
ParseNotAFunction == PlainError("schema.parse is not a function")

\* JSON text as its sequence of tokens
Tok(tok, v) == [tok |-> tok, v |-> v]

RECURSIVE Flatten(_)
Flatten(seqs) == IF seqs = <<>> THEN <<>> ELSE Head(seqs) \o Flatten(Tail(seqs))

\* JSON.stringify of an array of strings
StringifyPath(path) ==
    <<Tok("[", "")>> \o [i \in 1..Len(path) |-> Tok("string", path[i])] \o <<Tok("]", "")>>

\* JSON.stringify of one issue object
StringifyIssue(issue) ==
    <<Tok("{", ""), Tok("key", "code"), Tok("string", issue.code), Tok("key", "path")>>
    \o StringifyPath(issue.path)
    \o <<Tok("key", "message"), Tok("string", issue.message), Tok("}", "")>>

\* ZodError.message: JSON.stringify(issues)
ZodErrorMessage(issues) ==
    <<Tok("[", "")>> \o Flatten([i \in 1..Len(issues) |-> StringifyIssue(issues[i])])
    \o <<Tok("]", "")>>

\* JSON.parse: a value and the tokens left after it
RECURSIVE ParseValue(_), ParseElements(_, _), ParseMembers(_, _)
ParseValue(ts) ==
    CASE Head(ts).tok = "[" -> ParseElements(Tail(ts), <<>>)
      [] Head(ts).tok = "{" -> ParseMembers(Tail(ts), <<>>)
      [] OTHER -> [val |-> Head(ts).v, rest |-> Tail(ts)]

ParseElements(ts, acc) ==
    IF Head(ts).tok = "]"
    THEN [val |-> acc, rest |-> Tail(ts)]
    ELSE LET r == ParseValue(ts) IN ParseElements(r.rest, Append(acc, r.val))

ParseMembers(ts, acc) ==
    IF Head(ts).tok = "}"
    THEN [val |-> acc, rest |-> Tail(ts)]
    ELSE LET r == ParseValue(Tail(ts))
         IN ParseMembers(r.rest, (Head(ts).v :> r.val) @@ acc)

JSONParse(ts) == ParseValue(ts).val

\* faulty variant: only the first issue is reported
ValidationErrorFirstOnly(issues, location) ==
    LET parsed == JSONParse(ZodErrorMessage(issues))
    IN Err("ValidationError", BAD_REQUEST, "Validation failed",
           <<[message |-> parsed[1].message, path |-> parsed[1].path]>>,
           location)

\* new ValidationError(zodError, location)
ValidationError(issues, location) ==
    LET parsed == JSONParse(ZodErrorMessage(issues))
    IN Err("ValidationError", BAD_REQUEST, "Validation failed",
           [i \in 1..Len(parsed) |-> [message |-> parsed[i].message, path |-> parsed[i].path]],
           location)

\* faulty variant: a location that is no object is not validated and passes
ValidationMiddlewareLenient(type, schema, req) ==
    IF TypeOf(req[type]) # "object"
    THEN [threw |-> FALSE, err |-> PlainError("none"), ret |-> Obj(EmptyObj)]
    ELSE IF ~HasParse(UsedSchema(schema))
    THEN [threw |-> TRUE, err |-> ParseNotAFunction, ret |-> Undefined]
    ELSE IF SchemaParse(req[type]).needsAsync
    THEN [threw |-> TRUE, err |-> AsyncTransformError, ret |-> Undefined]
    ELSE IF ~SchemaParse(req[type]).success
    THEN [threw |-> TRUE,
          err |-> ValidationError(SchemaParse(req[type]).issues, type),
          ret |-> Undefined]
    ELSE [threw |-> FALSE, err |-> PlainError("none"), ret |-> Obj(EmptyObj)]

\* faulty variant: the ZodError is caught and dropped, the validator returns
ValidationMiddlewareSwallows(type, schema, req) ==
    IF TypeOf(req[type]) # "object"
    THEN [threw |-> TRUE,
          err |-> HTTPError(BAD_REQUEST, "Invalid request body (not an object)"),
          ret |-> Undefined]
    ELSE IF ~HasParse(UsedSchema(schema))
    THEN [threw |-> TRUE, err |-> ParseNotAFunction, ret |-> Undefined]
    ELSE IF SchemaParse(req[type]).needsAsync
    THEN [threw |-> TRUE, err |-> AsyncTransformError, ret |-> Undefined]
    ELSE [threw |-> FALSE, err |-> PlainError("none"), ret |-> Obj(EmptyObj)]

\* faulty variant: a location that is no object is reported as a validation
\* failure
ValidationMiddlewareAsIssue(type, schema, req) ==
    IF TypeOf(req[type]) # "object"
    THEN [threw |-> TRUE,
          err |-> ValidationError(<<ZodIssue("invalid_type", "Expected object", <<>>)>>, type),
          ret |-> Undefined]
    ELSE IF ~HasParse(UsedSchema(schema))
    THEN [threw |-> TRUE, err |-> ParseNotAFunction, ret |-> Undefined]
    ELSE IF SchemaParse(req[type]).needsAsync
    THEN [threw |-> TRUE, err |-> AsyncTransformError, ret |-> Undefined]
    ELSE IF ~SchemaParse(req[type]).success
    THEN [threw |-> TRUE,
          err |-> ValidationError(SchemaParse(req[type]).issues, type),
          ret |-> Undefined]
    ELSE [threw |-> FALSE, err |-> PlainError("none"), ret |-> Obj(EmptyObj)]

\* faulty variant: an accepting validator returns a key for the context
ValidationMiddlewareAddsKey(type, schema, req) ==
    IF TypeOf(req[type]) # "object"
    THEN [threw |-> TRUE,
          err |-> HTTPError(BAD_REQUEST, "Invalid request body (not an object)"),
          ret |-> Undefined]
    ELSE IF ~HasParse(UsedSchema(schema))
    THEN [threw |-> TRUE, err |-> ParseNotAFunction, ret |-> Undefined]
    ELSE IF SchemaParse(req[type]).needsAsync
    THEN [threw |-> TRUE, err |-> AsyncTransformError, ret |-> Undefined]
    ELSE IF ~SchemaParse(req[type]).success
    THEN [threw |-> TRUE,
          err |-> ValidationError(SchemaParse(req[type]).issues, type),
          ret |-> Undefined]
    ELSE [threw |-> FALSE, err |-> PlainError("none"),
          ret |-> Obj([name |-> "v2", age |-> Absent])]

\* faulty variant: an accepting validator returns the location it validated
\* under the key name
ValidationMiddlewareTags(type, schema, req) ==
    IF TypeOf(req[type]) # "object"
    THEN [threw |-> TRUE,
          err |-> HTTPError(BAD_REQUEST, "Invalid request body (not an object)"),
          ret |-> Undefined]
    ELSE IF ~HasParse(UsedSchema(schema))
    THEN [threw |-> TRUE, err |-> ParseNotAFunction, ret |-> Undefined]
    ELSE IF SchemaParse(req[type]).needsAsync
    THEN [threw |-> TRUE, err |-> AsyncTransformError, ret |-> Undefined]
    ELSE IF ~SchemaParse(req[type]).success
    THEN [threw |-> TRUE,
          err |-> ValidationError(SchemaParse(req[type]).issues, type),
          ret |-> Undefined]
    ELSE [threw |-> FALSE, err |-> PlainError("none"),
          ret |-> Obj([name |-> type, age |-> Absent])]

\* validationMiddleware: what the validator of `type` does with the request.
\* It returns {} (after calling the proceed callback with no argument, which
\* does nothing) or throws; req[type] is read and never assigned.
ValidationMiddleware(type, schema, req) ==
    IF TypeOf(req[type]) # "object"
    THEN [threw |-> TRUE,
          err |-> HTTPError(BAD_REQUEST, "Invalid request body (not an object)"),
          ret |-> Undefined]
    ELSE IF ~HasParse(UsedSchema(schema))
    THEN [threw |-> TRUE, err |-> ParseNotAFunction, ret |-> Undefined]
    ELSE IF SchemaParse(req[type]).needsAsync
    THEN [threw |-> TRUE, err |-> AsyncTransformError, ret |-> Undefined]
    ELSE IF ~SchemaParse(req[type]).success
    THEN [threw |-> TRUE,
          err |-> ValidationError(SchemaParse(req[type]).issues, type),
          ret |-> Undefined]
    ELSE [threw |-> FALSE, err |-> PlainError("none"), ret |-> Obj(EmptyObj)]

----------------------------------------------------------------------------
(* The elements of a chain, and what the environment lets them do *)

\* the entries of _chain: the wrapper middleware() builds around a user
\* function, and the validationMiddleware validate() builds for a location
\* and a schema
MiddlewareStep == [kind |-> "middleware", type |-> Absent, schema |-> NoSchema]

ValidateStep(type, schema) == [kind |-> "validate", type |-> type, schema |-> schema]

StepEl(k) == [kind |-> "step", k |-> k]

ResolverEl == [kind |-> "resolver", k |-> 0]

TransformerEl == [kind |-> "transformer", k |-> 0]

\* the core itself: its error dispatch, its write of the transformer's value,
\* and its calls of the host's next
DispatchEl == [kind |-> "dispatch", k |-> 0]

ExecutorEl == [kind |-> "executor", k |-> 0]

CoreEl == [kind |-> "core", k |-> 0]

\* the statuses an element writes when it sends the response itself
ElementStatuses == {204, 301}

\* the statuses of the HTTPErrors the elements throw: the table's, and one
\* that the table does not hold
ThrownStatuses == HTTPStatus \cup {418}

\* what an element may throw: middlewares, resolver and transformer cannot
\* build a ValidationError (the class is not exported)
ThrownErrors == {HTTPError(s, "denied") : s \in ThrownStatuses} \cup {PlainError("boom")}

\* calling this._resolver when resolve() was never called
NotAFunction == PlainError("this._resolver is not a function")

\* what Express throws when a header is set on a response that was sent
HeadersSentError == PlainError("Cannot set headers after they are sent to the client")

\* the request of a chain: the locations no validator reads hold a valid value
Requests(ch) ==
    {r \in [Locations -> ReqValues] :
        \A l \in Locations :
            (\A i \in 1..Len(ch) : ch[i].kind # "validate" \/ ch[i].type # l)
                => r[l] = ReqValid}

----------------------------------------------------------------------------
(* One execution of the runner *)

\* the body of a response the core did not write
NoContent == [errors |-> <<>>, location |-> Absent, type |-> "none"]

\* nothing was sent yet
NoWire == [status |-> 0, via |-> "none", content |-> NoContent]

\* the state of an execution before the runner is called
Fresh ==
    [pc |-> "idle",            \* idle, step, resolver, transformer, done
     index |-> 0,              \* let index = 0
     context |-> EmptyObj,     \* let context = {}
     input |-> [l \in Locations |-> ReqValid],   \* the request as the host passed it
     req |-> [l \in Locations |-> ReqValid],     \* req, as the elements read it
     res |-> [headersSent |-> FALSE, statusCode |-> OK, wire |-> NoWire],
     result |-> "pending",     \* of the runner's promise: pending, returned, rejected
     trace |-> <<>>]           \* what happened, in order

\* events of the trace
Event(ev, el, val) == [ev |-> ev, el |-> el, val |-> val]

Log(x, event) == [x EXCEPT !.trace = Append(@, event)]

\* the element is called with an argument
Invoked(x, el, arg) == Log(x, Event("invoke", el, arg))

\* the element's call settles: it returned val, or threw val
Settled(x, el, out, val) == Log(x, Event("settle", el, [out |-> out, val |-> val]))

\* faulty variant: the frame neither returns nor throws, the runner's
\* promise stays pending
FinishHangs(x, result) == [x EXCEPT !.pc = "stalled"]

\* the runner's promise settles
Finish(x, result) == [x EXCEPT !.pc = "done", !.result = result]

\* next(err) of the host
HostNext(x, err) == Log(x, Event("next", CoreEl, err))

\* res.status(status) followed by res.json(content) or res.send(content):
\* the status is stored, and the send throws when the response was sent
\* already; otherwise it puts the response on the wire
CoreWrite(x, by, status, via, content) ==
    LET x1 == [x EXCEPT !.res.statusCode = status]
        w == [status |-> status, via |-> via, content |-> content]
    IN IF x.res.headersSent
       THEN [threw |-> TRUE,
             x |-> Log(x1, Event("write", by, [ok |-> FALSE, wire |-> w]))]
       ELSE [threw |-> FALSE,
             x |-> Log([x1 EXCEPT !.res.headersSent = TRUE, !.res.wire = w],
                       Event("write", by, [ok |-> TRUE, wire |-> w]))]

\* faulty variant: an HTTPError is passed to next like an unclassified error
DispatchDelegatesAll(x, err) ==
    IF err.cls = "ValidationError"
    THEN CoreWrite(x, DispatchEl, err.status, "json",
                   [errors |-> err.errors, location |-> err.location,
                    type |-> HTTPStatusText(err.status)])
    ELSE [threw |-> FALSE, x |-> HostNext(x, err)]

\* faulty variant: an unclassified error is answered with a 500 by the core
DispatchAnswersAll(x, err) ==
    IF err.cls = "ValidationError"
    THEN CoreWrite(x, DispatchEl, err.status, "json",
                   [errors |-> err.errors, location |-> err.location,
                    type |-> HTTPStatusText(err.status)])
    ELSE IF err.cls = "HTTPError"
    THEN CoreWrite(x, DispatchEl, err.status, "json",
                   [errors |-> <<err.message>>, location |-> Absent,
                    type |-> HTTPStatusText(err.status)])
    ELSE CoreWrite(x, DispatchEl, INTERNAL_SERVER_ERROR, "json",
                   [errors |-> <<err.message>>, location |-> Absent,
                    type |-> HTTPStatusText(INTERNAL_SERVER_ERROR)])

\* the catch block of a step's frame (lines 328-345)
Dispatch(x, err) ==
    IF err.cls = "ValidationError"
    THEN CoreWrite(x, DispatchEl, err.status, "json",
                   [errors |-> err.errors, location |-> err.location,
                    type |-> HTTPStatusText(err.status)])
    ELSE IF err.cls = "HTTPError"
    THEN CoreWrite(x, DispatchEl, err.status, "json",
                   [errors |-> <<err.message>>, location |-> Absent,
                    type |-> HTTPStatusText(err.status)])
    ELSE [threw |-> FALSE, x |-> HostNext(x, err)]

\* an error reaches the catch block of the frame of step `depth`.  When the
\* catch block itself throws, the frame's promise rejects: the frame of step
\* depth-1 awaits it inside its own try, and the first frame is awaited by
\* the runner, whose promise then rejects.
RECURSIVE Catch(_, _, _)
Catch(x, err, depth) ==
    LET r == Dispatch(x, err)
    IN IF ~r.threw THEN Finish(r.x, "returned")
       ELSE IF depth > 1 THEN Catch(r.x, HeadersSentError, depth - 1)
       ELSE Finish(Log(r.x, Event("reject", CoreEl, HeadersSentError)), "rejected")

\* the next position of the chain: const currentMiddleware = this._chain[index++]
NextIndex(index) == index + 1

\* a handler at the time express() is called on it before it is complete:
\* one middleware, and neither resolver nor transformer yet
HandlerAtExpress ==
    [chain |-> <<MiddlewareStep>>, resolver |-> NoFn, transformer |-> NoFn]

\* faulty variant: express() stores the length of the list, the runner
\* compares with the length the list had then
ChainExhaustedAtExpress(index, length) == index >= Len(HandlerAtExpress.chain)

\* faulty variant: the last step is skipped (index >= this._chain.length - 1)
ChainExhaustedEarly(index, length) == index >= length - 1

\* if (index >= this._chain.length)
ChainExhausted(index, length) == index >= length

\* faulty variant: the step is called but not awaited, the resolver is called
\* at once
RunNextChainItemNoAwait(ch, hasResolver, x) ==
    IF ChainExhausted(x.index, Len(ch))
    THEN IF hasResolver
         THEN Invoked([x EXCEPT !.pc = "resolver"], ResolverEl, x.context)
         ELSE Finish(HostNext(x, NotAFunction), "returned")
    ELSE LET k == NextIndex(x.index)
             x1 == Invoked([x EXCEPT !.index = k, !.pc = "step"], StepEl(k), x.context)
         IN Invoked([x1 EXCEPT !.pc = "resolver"], ResolverEl, x1.context)

\* runNextChainItem up to its first await: the resolver is called when the
\* chain is used up, else the next step.  A validator runs synchronously, so
\* its throw is caught here; everything else is awaited.
RunNextChainItem(ch, hasResolver, x) ==
    IF ChainExhausted(x.index, Len(ch))
    THEN IF hasResolver
         THEN Invoked([x EXCEPT !.pc = "resolver"], ResolverEl, x.context)
         ELSE Finish(HostNext(x, NotAFunction), "returned")
    ELSE LET k == NextIndex(x.index)
             x1 == Invoked([x EXCEPT !.index = k, !.pc = "step"], StepEl(k), x.context)
         IN IF ch[k].kind = "validate" /\ ValidationMiddleware(ch[k].type, ch[k].schema, x.req).threw
            THEN Catch(Settled(x1, StepEl(k), "throw",
                               ValidationMiddleware(ch[k].type, ch[k].schema, x.req).err),
                       ValidationMiddleware(ch[k].type, ch[k].schema, x.req).err, k)
            ELSE x1

\* the wrapper middleware() puts around the user's function (lines 119-127)
MiddlewareWrapper(ret, context) ==
    IF ret.t = "undefined" \/ ret.t = "null" THEN Obj(context) ELSE ret

\* faulty variant: { ...returned, ...context }, the first write wins
SpreadKeepsFirst(context, returned) ==
    [k \in Keys |-> IF context[k] # Absent THEN context[k] ELSE returned[k]]

\* { ...context, ...returned }
Spread(context, returned) ==
    [k \in Keys |-> IF returned[k] # Absent THEN returned[k] ELSE context[k]]

\* only object values are appended to the context (lines 314-322)
AppendContext(context, returned) ==
    IF /\ returned.t # "undefined"
       /\ returned.t # "null"
       /\ TypeOf(returned) = "object"
       /\ ~IsArray(returned)
    THEN Spread(context, returned.o)
    ELSE context

\* what a step may hand to the proceed callback: nothing, a value that is
\* no Error (next('route') of Express), or an Error
NoArgument == Err("undefined", 0, "", <<>>, Absent)

RouteString == Err("string", 0, "route", <<>>, Absent)

\* err instanceof Error
InstanceOfError(v) == v.cls \in {"Error", "HTTPError", "ValidationError"}

\* a call of the proceed callback by step el; phase tells whether the step's
\* call is still in progress ("pending") or has settled ("settled")
ProceedCalled(x, el, phase, arg) ==
    Log(x, Event("proceed", el, [out |-> phase, val |-> arg]))

\* the calls of the proceed callback in a trace, and those step el has made
ProceedCalls(t) == {i \in 1..Len(t) : t[i].ev = "proceed"}

ProceedCallsOf(t, el) == {i \in ProceedCalls(t) : t[i].el = el}

\* faulty variant: the step is handed the host's next
ProceedCallsHostNext(x, arg) == [threw |-> FALSE, x |-> HostNext(x, arg)]

\* the proceed callback handed to a step (lines 305-309): it throws an Error
\* it is given back to its caller, and does nothing else
Proceed(x, arg) == [threw |-> InstanceOfError(arg), x |-> x]

\* faulty variant: the chain goes on only when the step that returned has
\* called the proceed callback
StepReturnedNeedsProceed(ch, hasResolver, x, returned) ==
    LET x1 == [x EXCEPT !.context = AppendContext(@, returned)]
    IN IF x1.res.headersSent \/ ProceedCallsOf(x1.trace, StepEl(x1.index)) = {}
       THEN Finish(x1, "returned")
       ELSE RunNextChainItem(ch, hasResolver, x1)

\* faulty variant: the check of res.headersSent is missing
NeverStops(x) == FALSE

\* if (res.headersSent) return
StopsAfterStep(x) == x.res.headersSent

\* the continuation of a step's frame when the step returned
StepReturned(ch, hasResolver, x, returned) ==
    LET x1 == [x EXCEPT !.context = AppendContext(@, returned)]
    IN IF StopsAfterStep(x1)
       THEN Finish(x1, "returned")
       ELSE RunNextChainItem(ch, hasResolver, x1)

\* faulty variant: the test for null is missing, null goes to res.json
WriteTransformedNullAsJson(x, value) ==
    IF value.t # "undefined"
    THEN IF TypeOf(value) = "object"
         THEN CoreWrite(x, ExecutorEl, x.res.statusCode, "json", value)
         ELSE CoreWrite(x, ExecutorEl, x.res.statusCode, "send", value)
    ELSE [threw |-> FALSE, x |-> x]

\* the Executor writes what the transformer returned (lines 280-289)
WriteTransformed(x, value) ==
    IF value.t # "undefined"
    THEN IF TypeOf(value) = "object" /\ value.t # "null"
         THEN CoreWrite(x, ExecutorEl, x.res.statusCode, "json", value)
         ELSE CoreWrite(x, ExecutorEl, x.res.statusCode, "send", value)
    ELSE [threw |-> FALSE, x |-> x]

\* faulty variant: the catch block calls the resolver once more
ResolverCatchRetries(x, err) ==
    Invoked([x EXCEPT !.pc = "resolver"], ResolverEl, x.context)

\* the catch block of the resolver's frame (lines 294-297)
ResolverCatch(x, err) == Finish(HostNext(x, err), "returned")

\* the continuation of the resolver's frame when the transformer returned
TransformerReturned(x, value) ==
    LET r == WriteTransformed(x, value)
    IN IF r.threw THEN ResolverCatch(r.x, HeadersSentError) ELSE Finish(r.x, "returned")

\* faulty variant: without a transformer the resolver's data is sent as JSON
ResolverReturnedSends(hasTransformer, x, data) ==
    IF hasTransformer
    THEN Invoked([x EXCEPT !.pc = "transformer"], TransformerEl, data)
    ELSE Finish(CoreWrite(x, ExecutorEl, x.res.statusCode, "json", data).x, "returned")

\* faulty variant: res.headersSent is consulted after the resolver too, and
\* the frame returns when the resolver sent the response
ResolverReturnedChecksSent(hasTransformer, x, data) ==
    IF hasTransformer /\ ~x.res.headersSent
    THEN Invoked([x EXCEPT !.pc = "transformer"], TransformerEl, data)
    ELSE Finish(x, "returned")

\* the continuation of the resolver's frame when the resolver returned
ResolverReturned(hasTransformer, x, data) ==
    IF hasTransformer
    THEN Invoked([x EXCEPT !.pc = "transformer"], TransformerEl, data)
    ELSE Finish(x, "returned")

----------------------------------------------------------------------------
(* The handler and its executions *)

Init ==
    /\ chain = <<>>
    /\ resolver = NoFn
    /\ transformer = NoFn
    /\ execs = [e \in {1} |-> Fresh]

Building == \A e \in DOMAIN execs : execs[e].pc = "idle"

\* faulty variant: let index and let context are declared once in express(),
\* outside the runner, so every execution works on the first one's
ClosureShared(xs, e) == [xs[e] EXCEPT !.index = xs[1].index, !.context = xs[1].context]

\* what runNextChainItem of execution e works on: req, res and next are the
\* runner's parameters, index and context its own local variables
Closure(xs, e) == xs[e]

\* faulty variant: the step is put in front of the list (unshift)
PushFront(ch, step) == <<step>> \o ch

\* this._chain.push(step)
Push(ch, step) == Append(ch, step)

\* the body of middleware(mw): the wrapper around mw is pushed
AddMiddleware ==
    /\ chain' = Push(chain, MiddlewareStep)
    /\ UNCHANGED <<resolver, transformer, execs>>

\* the body of validate(type, schema): validationMiddleware is pushed
AddValidator(type, schema) ==
    /\ chain' = Push(chain, ValidateStep(type, schema))
    /\ UNCHANGED <<resolver, transformer, execs>>

\* the body of resolve(fn): this._resolver = fn
SetResolver(fn) ==
    /\ resolver' = fn
    /\ UNCHANGED <<chain, transformer, execs>>

\* the body of transform(fn): this._transformer = fn
SetTransformer(fn) ==
    /\ transformer' = fn
    /\ UNCHANGED <<chain, resolver, execs>>

\* handler.middleware(mw)
Middleware ==
    /\ Building
    /\ Len(chain) < MaxSteps
    /\ AddMiddleware

\* handler.validate(type, schema), with a mapping of field schemas
Validate ==
    /\ Building
    /\ Len(chain) < MaxSteps
    /\ \E type \in Locations : AddValidator(type, Mapping)

\* handler.resolve(fn)
Resolve ==
    /\ Building
    /\ SetResolver(Fn1)

\* handler.transform(fn)
Transform ==
    /\ Building
    /\ SetTransformer(Fn1)

\* faulty variant: index and context are kept on the handler, a call of the
\* runner goes on where the first execution is
RunnerLocalsKept(xs, req) ==
    [Fresh EXCEPT !.input = req, !.req = req,
                  !.index = xs[1].index, !.context = xs[1].context]

\* a call of the runner: its parameters, let index = 0 and let context = {}
RunnerLocals(xs, req) == [Fresh EXCEPT !.input = req, !.req = req]

\* the host calls the runner that express() returned, with a request
Runner ==
    \E e \in DOMAIN execs :
        /\ execs[e].pc = "idle"
        /\ \E req \in Requests(chain) :
              execs' = [execs EXCEPT ![e] =
                           RunNextChainItem(chain, HasResolver, RunnerLocals(execs, req))]
        /\ UNCHANGED <<chain, resolver, transformer>>

\* the element in progress
Current(x) ==
    CASE x.pc = "step" -> StepEl(x.index)
      [] x.pc = "resolver" -> ResolverEl
      [] OTHER -> TransformerEl

\* a middleware, the resolver or the transformer sends the response through res
ElementWrites ==
    \E e \in DOMAIN execs :
        LET x == Closure(execs, e)
        IN /\ x.pc \in {"step", "resolver", "transformer"}
           /\ x.pc = "step" => chain[x.index].kind = "middleware"
           /\ ~x.res.headersSent
           /\ \E s \in ElementStatuses :
                 LET w == [status |-> s, via |-> "element", content |-> NoContent]
                 IN execs' = [execs EXCEPT ![e] =
                        Log([x EXCEPT !.res.headersSent = TRUE, !.res.statusCode = s,
                                      !.res.wire = w],
                            Event("write", Current(x), [ok |-> TRUE, wire |-> w]))]
           /\ UNCHANGED <<chain, resolver, transformer>>

\* the awaited step returns: a middleware whatever its function returns, a
\* validator the {} it returned
StepReturns ==
    \E e \in DOMAIN execs :
        LET x == Closure(execs, e)
            k == x.index
        IN /\ x.pc = "step"
           /\ \E ret \in (IF chain[k].kind = "middleware" THEN MiddlewareValues
                          ELSE {ValidationMiddleware(chain[k].type, chain[k].schema, x.req).ret}) :
                 execs' = [execs EXCEPT ![e] =
                     StepReturned(chain, HasResolver,
                         Settled(x, StepEl(k), "return", ret),
                         IF chain[k].kind = "middleware"
                         THEN MiddlewareWrapper(ret, x.context) ELSE ret)]
           /\ UNCHANGED <<chain, resolver, transformer>>

\* the awaited middleware throws (its promise rejects)
StepThrows ==
    \E e \in DOMAIN execs :
        LET x == Closure(execs, e)
            k == x.index
        IN /\ x.pc = "step"
           /\ chain[k].kind = "middleware"
           /\ \E err \in ThrownErrors :
                 execs' = [execs EXCEPT ![e] =
                     Catch(Settled(x, StepEl(k), "throw", err), err, k)]
           /\ UNCHANGED <<chain, resolver, transformer>>

\* the awaited resolver returns
ResolverReturns ==
    \E e \in DOMAIN execs :
        LET x == Closure(execs, e)
        IN /\ x.pc = "resolver"
           /\ \E data \in ResolverValues :
                 execs' = [execs EXCEPT ![e] =
                     ResolverReturned(HasTransformer,
                         Settled(x, ResolverEl, "return", data), data)]
           /\ UNCHANGED <<chain, resolver, transformer>>

\* the awaited resolver throws
ResolverThrows ==
    \E e \in DOMAIN execs :
        LET x == Closure(execs, e)
        IN /\ x.pc = "resolver"
           /\ \E err \in ThrownErrors :
                 execs' = [execs EXCEPT ![e] =
                     ResolverCatch(Settled(x, ResolverEl, "throw", err), err)]
           /\ UNCHANGED <<chain, resolver, transformer>>

\* the awaited transformer returns
TransformerReturns ==
    \E e \in DOMAIN execs :
        LET x == Closure(execs, e)
        IN /\ x.pc = "transformer"
           /\ \E value \in TransformerValues :
                 execs' = [execs EXCEPT ![e] =
                     TransformerReturned(Settled(x, TransformerEl, "return", value), value)]
           /\ UNCHANGED <<chain, resolver, transformer>>

\* the awaited transformer throws
TransformerThrows ==
    \E e \in DOMAIN execs :
        LET x == Closure(execs, e)
        IN /\ x.pc = "transformer"
           /\ \E err \in ThrownErrors :
                 execs' = [execs EXCEPT ![e] =
                     ResolverCatch(Settled(x, TransformerEl, "throw", err), err)]
           /\ UNCHANGED <<chain, resolver, transformer>>

Next ==
    \/ Middleware
    \/ Validate
    \/ Resolve
    \/ Transform
    \/ Runner
    \/ ElementWrites
    \/ StepReturns
    \/ StepThrows
    \/ ResolverReturns
    \/ ResolverThrows
    \/ TransformerReturns
    \/ TransformerThrows

Spec == Init /\ [][Next]_vars

----------------------------------------------------------------------------
(* Two requests in flight on one handler *)

\* the handlers two requests are run on: two middlewares, or a validator of
\* the body and a middleware, with a resolver, with and without a transformer
ConcChains ==
    {<<MiddlewareStep, MiddlewareStep>>,
     <<ValidateStep("body", Mapping), MiddlewareStep>>}

\* what the elements of these handlers do: a middleware returns nothing or
\* one of two objects, an element that sends the response sends a 204, an
\* element throws an HTTPError(403) or a plain Error, the transformer returns
\* nothing or an object, and the body is valid or misses a field
ConcMiddlewareValues ==
    {Undefined, Obj([name |-> "v1", age |-> Absent]), Obj([name |-> "v2", age |-> "v2"])}

ConcThrownErrors == {HTTPError(FORBIDDEN, "denied"), PlainError("boom")}

ConcTransformerValues == {Undefined, Obj(EmptyObj)}

ConcRequests == {r \in [Locations -> {ReqValid, ReqBad1}] :
                    \A l \in Locations : l # "body" => r[l] = ReqValid}

ConcEnv ==
    \A e \in DOMAIN execs :
        LET t == execs[e].trace
        IN /\ execs[e].input \in ConcRequests
           /\ \A i \in 1..Len(t) :
                 /\ (t[i].ev = "write" /\ t[i].val.wire.via = "element") =>
                        t[i].val.wire.status = 204
                 /\ (t[i].ev = "settle" /\ t[i].val.out = "throw"
                        /\ ~(t[i].el.kind = "step" /\ chain[t[i].el.k].kind = "validate")) =>
                        t[i].val.val \in ConcThrownErrors
                 /\ (t[i].ev = "settle" /\ t[i].val.out = "return"
                        /\ t[i].el.kind = "step"
                        /\ chain[t[i].el.k].kind = "middleware") =>
                        t[i].val.val \in ConcMiddlewareValues
                 /\ (t[i].ev = "settle" /\ t[i].val.out = "return"
                        /\ t[i].el.kind = "transformer") =>
                        t[i].val.val \in ConcTransformerValues

\* express() was called on a built handler; the host has two requests for it
InitConc ==
    /\ chain \in ConcChains
    /\ resolver = Fn1
    /\ transformer \in {NoFn, Fn1}
    /\ execs = [e \in {1, 2} |-> Fresh]

\* the runner is called for either request, and the awaited elements of the
\* two executions settle in any order
NextConc ==
    \/ Runner /\ ConcEnv'
    \/ ElementWrites /\ ConcEnv'
    \/ StepReturns /\ ConcEnv'
    \/ StepThrows /\ ConcEnv'
    \/ ResolverReturns /\ ConcEnv'
    \/ ResolverThrows /\ ConcEnv'
    \/ TransformerReturns /\ ConcEnv'
    \/ TransformerThrows /\ ConcEnv'

SpecConc == InitConc /\ [][NextConc]_vars

----------------------------------------------------------------------------
(* Building a handler with every form of registration call *)

\* validate() with a mapping or a zod object, for the body
RegValidate ==
    /\ Building
    /\ Len(chain) < MaxSteps
    /\ \E schema \in Schemas : AddValidator("body", schema)

\* resolve(fn) with any function, also when a resolver is set already
RegResolve ==
    /\ Building
    /\ \E fn \in Fns : SetResolver(fn)

\* transform(fn) with any function, also when a transformer is set already
RegTransform ==
    /\ Building
    /\ \E fn \in Fns : SetTransformer(fn)

\* the registration calls in any order and number, then one request whose
\* elements behave as ConcEnv says
NextReg ==
    \/ Middleware
    \/ RegValidate
    \/ RegResolve
    \/ RegTransform
    \/ Runner /\ ConcEnv'
    \/ ElementWrites /\ ConcEnv'
    \/ StepReturns /\ ConcEnv'
    \/ StepThrows /\ ConcEnv'
    \/ ResolverReturns /\ ConcEnv'
    \/ ResolverThrows /\ ConcEnv'
    \/ TransformerReturns /\ ConcEnv'
    \/ TransformerThrows /\ ConcEnv'

SpecReg == Init /\ [][NextReg]_vars

----------------------------------------------------------------------------
(* Steps that call the proceed callback *)

\* how many calls of the proceed callback one execution is followed through
MaxProceedCalls == 2

ProceedArgs == {NoArgument, RouteString} \cup ConcThrownErrors

\* a middleware whose call is in progress calls the proceed callback.  An
\* Error is thrown at the place of the call: either it leaves the user's
\* function, whose promise then rejects with it (the wrapper of lines 119-127
\* awaits it without a try), or the function catches it itself.
StepCallsProceed ==
    \E e \in DOMAIN execs :
        LET x == Closure(execs, e)
            k == x.index
        IN /\ x.pc = "step"
           /\ chain[k].kind = "middleware"
           /\ Cardinality(ProceedCalls(x.trace)) < MaxProceedCalls
           /\ \E arg \in ProceedArgs, leaves \in BOOLEAN :
                 LET r == Proceed(ProceedCalled(x, StepEl(k), "pending", arg), arg)
                 IN execs' = [execs EXCEPT ![e] =
                        IF r.threw /\ leaves
                        THEN Catch(Settled(r.x, StepEl(k), "throw", arg), arg, k)
                        ELSE r.x]
           /\ UNCHANGED <<chain, resolver, transformer>>

\* a middleware that has returned calls the proceed callback it kept (from a
\* timer, say): an Error is thrown in that callback, outside every frame of
\* the runner
StepCallsProceedLate ==
    \E e \in DOMAIN execs :
        LET x == Closure(execs, e)
        IN /\ Cardinality(ProceedCalls(x.trace)) < MaxProceedCalls
           /\ \E i \in 1..Len(x.trace), arg \in ProceedArgs :
                 /\ x.trace[i].ev = "settle"
                 /\ x.trace[i].el.kind = "step"
                 /\ x.trace[i].val.out = "return"
                 /\ chain[x.trace[i].el.k].kind = "middleware"
                 /\ execs' = [execs EXCEPT ![e] =
                        Proceed(ProceedCalled(x, x.trace[i].el, "settled", arg), arg).x]
           /\ UNCHANGED <<chain, resolver, transformer>>

\* express() was called on a handler of two middlewares and a resolver; the
\* host has one request for it
InitProceed ==
    /\ chain = <<MiddlewareStep, MiddlewareStep>>
    /\ resolver = Fn1
    /\ transformer = NoFn
    /\ execs = [e \in {1} |-> Fresh]

NextProceed ==
    \/ Runner /\ ConcEnv'
    \/ ElementWrites /\ ConcEnv'
    \/ StepCallsProceed /\ ConcEnv'
    \/ StepCallsProceedLate /\ ConcEnv'
    \/ StepReturns /\ ConcEnv'
    \/ StepThrows /\ ConcEnv'
    \/ ResolverReturns /\ ConcEnv'
    \/ ResolverThrows /\ ConcEnv'

SpecProceed == InitProceed /\ [][NextProceed]_vars

----------------------------------------------------------------------------
(* Registration calls on a handler whose callable exists already *)

\* handler.middleware(mw) after express(), once: the call pushes on the list
\* of the same handler object, whatever the runner is doing
LateMiddleware ==
    /\ chain = HandlerAtExpress.chain
    /\ AddMiddleware

\* handler.resolve(fn) after express()
LateResolve == SetResolver(Fn1)

\* handler.transform(fn) after express()
LateTransform == SetTransformer(Fn1)

\* the host sends its second request when the first is answered
OneAtATime == execs[2].pc = "idle" \/ execs[1].pc = "done"

\* express() was called on the incomplete handler; the host has two requests
InitLate ==
    /\ chain = HandlerAtExpress.chain
    /\ resolver = HandlerAtExpress.resolver
    /\ transformer = HandlerAtExpress.transformer
    /\ execs = [e \in {1, 2} |-> Fresh]

NextLate ==
    \/ LateMiddleware
    \/ LateResolve
    \/ LateTransform
    \/ Runner /\ ConcEnv' /\ OneAtATime'
    \/ ElementWrites /\ ConcEnv'
    \/ StepReturns /\ ConcEnv'
    \/ StepThrows /\ ConcEnv'
    \/ ResolverReturns /\ ConcEnv'
    \/ ResolverThrows /\ ConcEnv'
    \/ TransformerReturns /\ ConcEnv'
    \/ TransformerThrows /\ ConcEnv'

SpecLate == InitLate /\ [][NextLate]_vars

----------------------------------------------------------------------------
(* Executions whose elements all settle *)

\* the elements behave as ConcEnv says, and the request is one the
\* validators accept (one they reject ends the execution in the call that
\* invokes the validator, where nothing is waited for)
FairEnv ==
    /\ ConcEnv
    /\ \A e \in DOMAIN execs : \A l \in Locations : execs[e].input[l] = ReqValid

\* the promise of the element in progress settles, and the event loop runs
\* the continuation of the frame that awaits it
ElementSettles ==
    (\/ StepReturns
     \/ StepThrows
     \/ ResolverReturns
     \/ ResolverThrows
     \/ TransformerReturns
     \/ TransformerThrows) /\ FairEnv'

\* a handler is built and gets one request
NextFair ==
    \/ Middleware
    \/ RegValidate
    \/ RegResolve
    \/ RegTransform
    \/ Runner /\ FairEnv'
    \/ ElementWrites /\ FairEnv'
    \/ StepReturns /\ FairEnv'
    \/ StepThrows /\ FairEnv'
    \/ ResolverReturns /\ FairEnv'
    \/ ResolverThrows /\ FairEnv'
    \/ TransformerReturns /\ FairEnv'
    \/ TransformerThrows /\ FairEnv'

\* no element stays in progress for ever
SpecFair == Init /\ [][NextFair]_vars /\ WF_vars(ElementSettles)

----------------------------------------------------------------------------
(* Reading the trace of an execution *)

Max(S) == CHOOSE m \in S : \A n \in S : n <= m

\* the positions of the trace that hold an event of one of the kinds
Positions(t, evs) == {i \in 1..Len(t) : t[i].ev \in evs}

\* the event at i is element `kind` throwing an error of class cls
Threw(t, i, kind, cls) ==
    /\ t[i].ev = "settle"
    /\ t[i].el.kind = kind
    /\ t[i].val.out = "throw"
    /\ t[i].val.val.cls = cls

\* the event at i is a step returning normally
StepReturnedAt(t, i) ==
    /\ t[i].ev = "settle"
    /\ t[i].el.kind = "step"
    /\ t[i].val.out = "return"

\* the response was sent before position i
SentBefore(t, i) == \E j \in 1..(i - 1) : t[j].ev = "write" /\ t[j].val.ok

\* the last-write-wins merge of the plain objects the steps returned before
\* position i, key by key
ExpectedContext(t, i) ==
    [key \in Keys |->
        LET writers == {j \in 1..(i - 1) :
                           /\ StepReturnedAt(t, j)
                           /\ t[j].val.val.t = "object"
                           /\ t[j].val.val.o[key] # Absent}
        IN IF writers = {} THEN Absent ELSE t[Max(writers)].val.val.o[key]]

----------------------------------------------------------------------------
(* The claims *)

\* C1: within one execution the steps are invoked in registration order, an
\* element is invoked only when every element invoked before it has settled
\* (no two are in progress together), and the resolver is invoked only after
\* every step has settled.
C1_StrictOrder ==
    \A e \in DOMAIN execs :
        LET t == execs[e].trace
        IN \A i \in Positions(t, {"invoke"}) :
              /\ \A j \in Positions(t, {"invoke"}) :
                    j < i => \E m \in (j + 1)..(i - 1) :
                                t[m].ev = "settle" /\ t[m].el = t[j].el
              /\ t[i].el.kind = "step" =>
                    t[i].el.k = 1 + Cardinality({j \in Positions(t, {"invoke"}) : j < i})
              /\ t[i].el.kind = "resolver" =>
                    \A k \in 1..Len(chain) :
                        \E j \in 1..(i - 1) : t[j].ev = "settle" /\ t[j].el = StepEl(k)

\* a chain of two steps ran through and the resolver was invoked after them
C1_Witness ==
    \E e \in DOMAIN execs :
        /\ Len(chain) >= 2
        /\ \E i \in 1..Len(execs[e].trace) :
              execs[e].trace[i].ev = "invoke" /\ execs[e].trace[i].el = ResolverEl

C3_ContextIsMerge ==
    \A e \in DOMAIN execs :
        LET t == execs[e].trace
        IN \A i \in Positions(t, {"invoke"}) :
              t[i].el.kind \in {"step", "resolver"} => t[i].val = ExpectedContext(t, i)

\* the resolver got a context in which the second step overwrote a key of
\* the first and kept another
C3_Witness ==
    \E e \in DOMAIN execs :
        LET t == execs[e].trace
        IN \E i, j, m \in 1..Len(t) :
              /\ i < j /\ j < m
              /\ StepReturnedAt(t, i) /\ t[i].val.val = Obj([name |-> "v1", age |-> "v1"])
              /\ StepReturnedAt(t, j) /\ t[j].val.val = Obj([name |-> "v2", age |-> Absent])
              /\ t[m].ev = "invoke" /\ t[m].el = ResolverEl
              /\ t[m].val = [name |-> "v2", age |-> "v1"]

\* C4: when a step returns and the response is sent by then, nothing follows:
\* no element is invoked, the core writes nothing, dispatches no error and
\* does not call next, and the runner returns normally.
C4_StopsWhenSent ==
    \A e \in DOMAIN execs :
        LET t == execs[e].trace
        IN \A i \in 1..Len(t) :
              (StepReturnedAt(t, i) /\ SentBefore(t, i)) =>
                 /\ \A j \in Positions(t, {"invoke", "write", "next", "reject"}) : j < i
                 /\ Cardinality({j \in Positions(t, {"write"}) : t[j].val.ok}) = 1
                 /\ execs[e].pc = "done"
                 /\ execs[e].result = "returned"

\* the first of two steps sent the response and returned, with a resolver and
\* a transformer registered
C4_Witness ==
    \E e \in DOMAIN execs :
        LET t == execs[e].trace
        IN /\ Len(chain) = 2
           /\ HasResolver /\ HasTransformer
           /\ \E i \in 1..Len(t) :
                 StepReturnedAt(t, i) /\ t[i].el.k = 1 /\ SentBefore(t, i)

\* C5: in every state of an execution the writes of the response, made or
\* attempted, by an element, by the Executor or by error dispatch, and the
\* calls of the host's next are at most one in all.
C5_AtMostOneTerminal ==
    \A e \in DOMAIN execs :
        Cardinality(Positions(execs[e].trace, {"write", "next"})) <= 1

\* C6: an execution that has ended has sent a response or called next.
C6_AtLeastOneTerminal ==
    \A e \in DOMAIN execs :
        LET t == execs[e].trace
        IN execs[e].pc = "done" =>
              \E i \in Positions(t, {"write", "next"}) :
                  t[i].ev = "write" => t[i].val.ok

\* C7: when the resolver throws an HTTPError with status S, the core answers
\* with status S and the application-error body, and next is not called.
C7_ResolverErrorAnswered ==
    \A e \in DOMAIN execs :
        LET t == execs[e].trace
        IN \A i \in 1..Len(t) :
              Threw(t, i, "resolver", "HTTPError") =>
                 /\ Positions(t, {"next"}) = {}
                 /\ execs[e].res.wire.status = t[i].val.val.status
                 /\ execs[e].res.wire.content.errors = <<t[i].val.val.message>>

\* C8: when the transformer throws an HTTPError with status S, the core
\* answers with status S and the application-error body, and next is not
\* called.
C8_TransformerErrorAnswered ==
    \A e \in DOMAIN execs :
        LET t == execs[e].trace
        IN \A i \in 1..Len(t) :
              Threw(t, i, "transformer", "HTTPError") =>
                 /\ Positions(t, {"next"}) = {}
                 /\ execs[e].res.wire.status = t[i].val.val.status
                 /\ execs[e].res.wire.content.errors = <<t[i].val.val.message>>

\* C9: an unclassified error thrown by a step, the resolver or the
\* transformer makes the core call next exactly once, with that error, and
\* write nothing.
C9_UnclassifiedDelegated ==
    \A e \in DOMAIN execs :
        LET t == execs[e].trace
        IN \A i \in 1..Len(t) :
              (\E kind \in {"step", "resolver", "transformer"} : Threw(t, i, kind, "Error")) =>
                 /\ Cardinality(Positions(t, {"next"})) = 1
                 /\ \A j \in Positions(t, {"next"}) : t[j].val = t[i].val.val
                 /\ \A j \in Positions(t, {"write"}) :
                       t[j].el.kind \notin {"dispatch", "executor"}

\* the second of two steps threw an unclassified error
C9_Witness ==
    \E e \in DOMAIN execs :
        /\ execs[e].pc = "done"
        /\ \E i \in 1..Len(execs[e].trace) :
              Threw(execs[e].trace, i, "step", "Error") /\ execs[e].trace[i].el.k = 2

\* C10: when the validator of location L rejects the value with a list of
\* schema issues, the response has status 400 and the body {errors, location,
\* type}: one {message, path} per issue in the issues' order, location L, and
\* type "Bad Request".
C10_ValidationBody ==
    \A e \in DOMAIN execs :
        LET t == execs[e].trace
        IN \A i \in 1..Len(t) :
              Threw(t, i, "step", "ValidationError") =>
                 LET L == chain[t[i].el.k].type
                     issues == SchemaIssues(execs[e].req[L])
                     w == execs[e].res.wire
                 IN /\ issues # <<>>
                    /\ w.status = 400
                    /\ w.via = "json"
                    /\ w.content.location = L
                    /\ w.content.type = "Bad Request"
                    /\ Len(w.content.errors) = Len(issues)
                    /\ \A n \in 1..Len(issues) :
                          w.content.errors[n] =
                              [message |-> issues[n].message, path |-> issues[n].path]

\* the second step, a validator of the query, rejected a value with two issues
C10_Witness ==
    \E e \in DOMAIN execs :
        LET t == execs[e].trace
        IN \E i \in 1..Len(t) :
              /\ Threw(t, i, "step", "ValidationError")
              /\ t[i].el.k = 2
              /\ chain[2].type = "query"
              /\ Len(t[i].val.val.errors) = 2

\* the status texts of the table, as the documentation lists them
ListedStatusText(status) ==
    CASE status = 200 -> "OK"
      [] status = 400 -> "Bad Request"
      [] status = 401 -> "Unauthorized"
      [] status = 403 -> "Forbidden"
      [] status = 404 -> "Not Found"
      [] status = 500 -> "Internal Server Error"
      [] OTHER -> "undefined"

C12_ValidatedValueReplaces ==
    \A e \in DOMAIN execs :
        LET t == execs[e].trace
        IN \A i \in 1..Len(t) :
              (StepReturnedAt(t, i) /\ chain[t[i].el.k].kind = "validate") =>
                 execs[e].req[chain[t[i].el.k].type] =
                     SchemaOutput(execs[e].input[chain[t[i].el.k].type])

\* the event at i is the call of a validator
ValidatorInvokedAt(t, i) ==
    /\ t[i].ev = "invoke"
    /\ t[i].el.kind = "step"
    /\ chain[t[i].el.k].kind = "validate"

\* the validator at position k of the chain accepts the request of x
Accepts(x, k) ==
    /\ TypeOf(x.input[chain[k].type]) = "object"
    /\ SchemaIssues(x.input[chain[k].type]) = <<>>
    /\ x.input[chain[k].type].v # "rawAsync"

\* the validator at position k of the chain rejects the request of x with
\* schema issues
Rejects(x, k) ==
    /\ TypeOf(x.input[chain[k].type]) = "object"
    /\ SchemaIssues(x.input[chain[k].type]) # <<>>

C14_InvokedOnlyIfAccepted ==
    \A e \in DOMAIN execs :
        LET t == execs[e].trace
        IN \A i \in Positions(t, {"invoke"}) :
              \A k \in 1..Len(chain) :
                 (/\ chain[k].kind = "validate"
                  /\ t[i].el.kind = "step" => k < t[i].el.k) =>
                    Accepts(execs[e], k)

\* the resolver was invoked after a validator and a second step
C14_Witness ==
    \E e \in DOMAIN execs :
        LET t == execs[e].trace
        IN /\ Len(chain) = 2
           /\ chain[1].kind = "validate"
           /\ \E i \in Positions(t, {"invoke"}) : t[i].el = ResolverEl

\* C15: when two validators of different locations both reject the request,
\* the validator registered later is never invoked, and once the earlier one
\* is invoked the response reports its location and its errors.
C15_FirstValidatorWins ==
    \A e \in DOMAIN execs :
        LET t == execs[e].trace
            w == execs[e].res.wire
        IN \A k1, k2 \in 1..Len(chain) :
              (/\ k1 < k2
               /\ chain[k1].kind = "validate" /\ chain[k2].kind = "validate"
               /\ chain[k1].type # chain[k2].type
               /\ Rejects(execs[e], k1) /\ Rejects(execs[e], k2)) =>
                 /\ \A i \in Positions(t, {"invoke"}) : t[i].el # StepEl(k2)
                 /\ (\E i \in Positions(t, {"invoke"}) : t[i].el = StepEl(k1)) =>
                       /\ w.status = 400
                       /\ w.content.location = chain[k1].type
                       /\ Len(w.content.errors) = Len(SchemaIssues(execs[e].input[chain[k1].type]))
                       /\ \A n \in 1..Len(w.content.errors) :
                             w.content.errors[n].message =
                                 SchemaIssues(execs[e].input[chain[k1].type])[n].message
                       /\ Cardinality(Positions(t, {"write"})) = 1

\* the validators of body and query both reject, and the first was invoked
C15_Witness ==
    \E e \in DOMAIN execs :
        /\ Len(chain) = 2
        /\ chain[1] = ValidateStep("body", Mapping)
        /\ chain[2] = ValidateStep("query", Mapping)
        /\ Rejects(execs[e], 1) /\ Rejects(execs[e], 2)
        /\ execs[e].pc = "done"

\* the event at i is element `kind` returning normally
ReturnedAt(t, i, kind) ==
    /\ t[i].ev = "settle"
    /\ t[i].el.kind = kind
    /\ t[i].val.out = "return"

\* the positions at which the Executor calls res.json or res.send with the
\* transformer's value
ExecutorWrites(t) == {j \in Positions(t, {"write"}) : t[j].el = ExecutorEl}

C17_ResolverWithoutTransformer ==
    \A e \in DOMAIN execs :
        LET t == execs[e].trace
        IN \A i \in 1..Len(t) :
              (ReturnedAt(t, i, "resolver") /\ ~HasTransformer) =>
                 /\ \A j \in Positions(t, {"write", "next", "invoke", "reject"}) : j < i
                 /\ \A j \in Positions(t, {"write"}) :
                       t[j].el = ResolverEl /\ execs[e].res.wire = t[j].val.wire
                 /\ Positions(t, {"write"}) = {} => execs[e].res.wire = NoWire
                 /\ Positions(t, {"next"}) = {}
                 /\ execs[e].result = "returned"

\* the resolver sent the response itself after two steps and returned
C17_Witness ==
    \E e \in DOMAIN execs :
        LET t == execs[e].trace
        IN /\ ~HasTransformer
           /\ Len(chain) = 2
           /\ \E i \in 1..Len(t) : ReturnedAt(t, i, "resolver")
           /\ \E j \in Positions(t, {"write"}) : t[j].el = ResolverEl

\* C18: next is called only with an error that is neither an HTTPError nor a
\* validation failure, and only in an execution in which an element threw.
C18_NextOnlyUnclassified ==
    \A e \in DOMAIN execs :
        LET t == execs[e].trace
        IN \A j \in Positions(t, {"next"}) :
              /\ t[j].val.cls \notin {"HTTPError", "ValidationError"}
              /\ \E i \in 1..(j - 1) : t[i].ev = "settle" /\ t[i].val.out = "throw"

\* C20: an execution of a handler on which no resolver was set invokes no
\* step.
C20_ResolverMandatory ==
    \A e \in DOMAIN execs :
        ~HasResolver => Positions(execs[e].trace, {"invoke"}) = {}

\* the element of the event is one of the handler's, not the core
IsElement(el) == el.kind \in {"step", "resolver", "transformer"}

\* what one event of an element does to an execution of a handler with the
\* steps ch that runs alone; what a validator returns is computed, not taken
\* from the event
SoloEventOn(ch, x, ev) ==
    IF ev.ev = "write" /\ IsElement(ev.el)
    THEN Log([x EXCEPT !.res.headersSent = TRUE,
                       !.res.statusCode = ev.val.wire.status,
                       !.res.wire = ev.val.wire], ev)
    ELSE IF ev.ev # "settle" THEN x
    ELSE IF ev.el.kind = "step" /\ ev.val.out = "return"
    THEN IF ch[ev.el.k].kind = "middleware"
         THEN StepReturned(ch, HasResolver, Settled(x, ev.el, "return", ev.val.val),
                           MiddlewareWrapper(ev.val.val, x.context))
         ELSE LET ret == ValidationMiddleware(ch[ev.el.k].type, ch[ev.el.k].schema, x.req).ret
              IN StepReturned(ch, HasResolver, Settled(x, ev.el, "return", ret), ret)
    ELSE IF ev.el.kind = "step" /\ ch[ev.el.k].kind = "middleware"
    THEN Catch(Settled(x, ev.el, "throw", ev.val.val), ev.val.val, ev.el.k)
    ELSE IF ev.el.kind = "step" THEN x
    ELSE IF ev.el.kind = "resolver" /\ ev.val.out = "return"
    THEN ResolverReturned(HasTransformer, Settled(x, ev.el, "return", ev.val.val), ev.val.val)
    ELSE IF ev.el.kind = "transformer" /\ ev.val.out = "return"
    THEN TransformerReturned(Settled(x, ev.el, "return", ev.val.val), ev.val.val)
    ELSE ResolverCatch(Settled(x, ev.el, "throw", ev.val.val), ev.val.val)

\* the execution that results when the elements' events i, i+1, .. of trace t
\* happen to an execution x of a handler with the steps ch that runs alone
RECURSIVE SoloOn(_, _, _, _)
SoloOn(ch, t, i, x) ==
    IF i > Len(t) \/ x.pc = "done" THEN x
    ELSE SoloOn(ch, t, i + 1, SoloEventOn(ch, x, t[i]))

\* the same on the handler's own steps
SoloEvent(x, ev) == SoloEventOn(chain, x, ev)

Solo(t, i, x) == SoloOn(chain, t, i, x)

\* the execution of the request of e, with the elements behaving as they did
\* in execution e, on a handler with the steps ch
RunAloneOn(ch, e) ==
    IF execs[e].pc = "idle" THEN Fresh
    ELSE SoloOn(ch, execs[e].trace, 1,
                RunNextChainItem(ch, HasResolver,
                    [Fresh EXCEPT !.input = execs[e].input, !.req = execs[e].input]))

\* the execution of the same request alone, with the elements behaving as
\* they did in execution e
RunAlone(e) ==
    IF execs[e].pc = "idle" THEN Fresh
    ELSE Solo(execs[e].trace, 1,
              RunNextChainItem(chain, HasResolver,
                  [Fresh EXCEPT !.input = execs[e].input, !.req = execs[e].input]))

\* C19: with two executions of one handler interleaved at their awaits, the
\* context each works on is the merge of the returns of its own steps, the
\* position of each is the number of its own steps invoked, and each is in
\* the state, response and terminal action included, that it reaches when
\* it runs alone with its elements behaving the same way.
C19_Independent ==
    \A e \in DOMAIN execs :
        LET t == execs[e].trace
            own == Closure(execs, e)
        IN /\ own.index = Cardinality({i \in Positions(t, {"invoke"}) : t[i].el.kind = "step"})
           /\ own.context = ExpectedContext(t, Len(t) + 1)
           /\ \A i \in Positions(t, {"invoke"}) :
                 t[i].el.kind \in {"step", "resolver"} => t[i].val = ExpectedContext(t, i)
           /\ execs[e] = RunAlone(e)

\* the first execution waits for its second step while the second execution,
\* which collected another context, has finished after its resolver
C19_Witness ==
    /\ DOMAIN execs = {1, 2}
    /\ execs[1].pc = "step" /\ execs[1].index = 2
    /\ execs[1].context = [name |-> "v1", age |-> Absent]
    /\ execs[2].pc = "done"
    /\ execs[2].context = [name |-> "v2", age |-> "v2"]
    /\ \E i \in 1..Len(execs[2].trace) : ReturnedAt(execs[2].trace, i, "resolver")

\* C21: a resolver or transformer that is set is never replaced by a later
\* call of resolve() or transform().
C21_SetAtMostOnce ==
    [][/\ HasResolver => resolver' = resolver
       /\ HasTransformer => transformer' = transformer]_vars

\* sequence p is the beginning of sequence q
IsPrefix(p, q) == Len(p) <= Len(q) /\ \A i \in 1..Len(p) : p[i] = q[i]

\* C22: whatever happens, the step list before is a prefix of the step list
\* after, and when the list changes exactly one step was added at its end.
C22_AppendOnly ==
    [][/\ IsPrefix(chain, chain')
       /\ chain' # chain => Len(chain') = Len(chain) + 1]_vars

\* two different steps were registered and a request ran through both
C22_Witness ==
    /\ Len(chain) = 2
    /\ chain[1] # chain[2]
    /\ \E e \in DOMAIN execs :
          execs[e].pc = "done" /\ \E i \in 1..Len(execs[e].trace) :
              execs[e].trace[i] = Event("invoke", StepEl(2), execs[e].trace[i].val)

\* C23: a validator registered with a mapping does with every request what
\* the validator registered with the zod object made from that mapping does:
\* it returns, or throws the same error.
C23_MappingEqualsObject ==
    \A e \in DOMAIN execs :
        LET t == execs[e].trace
        IN \A i \in 1..Len(t) :
              (ValidatorInvokedAt(t, i) /\ chain[t[i].el.k].schema.form = "mapping") =>
                 ValidationMiddleware(chain[t[i].el.k].type, chain[t[i].el.k].schema,
                                      execs[e].input)
                 = ValidationMiddleware(chain[t[i].el.k].type,
                                        ZObject(chain[t[i].el.k].schema), execs[e].input)

\* what the dispatch did with the HTTPError thrown at position i of trace t
\* of execution x, whose status is no key of the table: one write with that
\* status and errors [message] and without a type, no call of next, and the
\* runner returned
UnlistedAnswered(x, i) ==
    LET t == x.trace
        w == x.res.wire
        writes == {j \in Positions(t, {"write"}) : t[j].el = DispatchEl}
    IN /\ Cardinality(writes) = 1
       /\ \A j \in writes : t[j].val.ok /\ t[j].val.wire = w
       /\ w.status = t[i].val.val.status
       /\ w.via = "json"
       /\ w.content.location = Absent
       /\ w.content.type = "undefined"
       /\ w.content.errors = <<t[i].val.val.message>>
       /\ Positions(t, {"next", "reject"}) = {}
       /\ x.result = "returned"

C25_NoStateBetweenRequests ==
    [][/\ (\E e \in DOMAIN execs : execs'[e] # execs[e]) =>
             chain' = chain /\ resolver' = resolver /\ transformer' = transformer
       /\ \A e \in DOMAIN execs :
             (execs[e].pc = "idle" /\ execs'[e].pc # "idle") =>
                /\ execs'[e].index = (IF chain = <<>> THEN 0 ELSE 1)
                /\ execs'[e].trace[1] =
                      Event("invoke", IF chain = <<>> THEN ResolverEl ELSE StepEl(1), EmptyObj)]_vars

\* the first execution collected a context and failed at its second step;
\* the second execution has just been started
C25_Witness ==
    /\ DOMAIN execs = {1, 2}
    /\ execs[1].pc = "done"
    /\ execs[1].index = 2
    /\ execs[1].context # EmptyObj
    /\ Positions(execs[1].trace, {"next"}) # {}
    /\ execs[2].pc = "step"
    /\ Len(execs[2].trace) = 1
    /\ execs[2].context = EmptyObj

\* C26: when the resolver or the transformer throws an HTTPError with status
\* 400 and message M, the response is 400 with the body
\* {errors: [{message: M}], type: "Bad Request"}.
C26_ErrorObjectBody ==
    \A e \in DOMAIN execs :
        LET t == execs[e].trace
            w == execs[e].res.wire
        IN \A i \in 1..Len(t) :
              (/\ (Threw(t, i, "resolver", "HTTPError") \/ Threw(t, i, "transformer", "HTTPError"))
               /\ t[i].val.val.status = BAD_REQUEST) =>
                 /\ w.status = BAD_REQUEST
                 /\ w.via = "json"
                 /\ w.content.type = "Bad Request"
                 /\ Len(w.content.errors) = 1
                 /\ w.content.errors[1] = [message |-> t[i].val.val.message]

\* C27: in one execution no step, and neither the resolver nor the
\* transformer, is invoked twice, and nothing is invoked after an element
\* threw.
C27_AtMostOnceNoRetry ==
    \A e \in DOMAIN execs :
        LET t == execs[e].trace
            invokes == Positions(t, {"invoke"})
        IN /\ \A i, j \in invokes : t[i].el = t[j].el => i = j
           /\ \A i \in 1..Len(t) :
                 (t[i].ev = "settle" /\ t[i].val.out = "throw") =>
                    \A j \in invokes : j < i

\* two steps and the resolver ran, the resolver threw, and the execution
\* ended
C27_Witness ==
    \E e \in DOMAIN execs :
        LET t == execs[e].trace
        IN /\ execs[e].pc = "done"
           /\ Cardinality(Positions(t, {"invoke"})) = 3
           /\ \E i \in 1..Len(t) : Threw(t, i, "resolver", "Error")

\* the position at which step k was invoked in trace t
InvokedPosition(t, k) ==
    CHOOSE p \in 1..Len(t) : t[p].ev = "invoke" /\ t[p].el = StepEl(k)

\* C28: a validator that succeeds returns the empty object, the element
\* after it is invoked next with the context the validator was invoked with,
\* and the host's next is not called on the way.  (When the validator is the
\* last step of a handler without resolver there is no element to go on to:
\* what follows is the failed call of the resolver.)
C28_ValidatorSuccess ==
    \A e \in DOMAIN execs :
        LET t == execs[e].trace
        IN \A i \in 1..Len(t) :
              (StepReturnedAt(t, i) /\ chain[t[i].el.k].kind = "validate") =>
                 LET k == t[i].el.k
                     before == t[InvokedPosition(t, k)].val
                 IN /\ t[i].val.val = Obj(EmptyObj)
                    /\ Len(t) > i
                    /\ \A j \in Positions(t, {"next"}) : j > i
                    /\ k < Len(chain) => t[i + 1] = Event("invoke", StepEl(k + 1), before)
                    /\ (k = Len(chain) /\ HasResolver) =>
                          t[i + 1] = Event("invoke", ResolverEl, before)
                    /\ (k = Len(chain) /\ ~HasResolver) => t[i + 1].ev = "next"

\* a middleware put keys into the context, the validator after it accepted
\* the request, and the resolver was invoked
C28_Witness ==
    \E e \in DOMAIN execs :
        LET t == execs[e].trace
        IN /\ Len(chain) = 2
           /\ chain[1].kind = "middleware"
           /\ chain[2].kind = "validate"
           /\ \E i \in 1..Len(t) : StepReturnedAt(t, i) /\ t[i].el.k = 2
           /\ \E j \in Positions(t, {"invoke"}) :
                 t[j].el = ResolverEl /\ t[j].val # EmptyObj

\* the steps ch with those at positions a and b exchanged
Swap(ch, a, b) ==
    [k \in 1..Len(ch) |-> IF k = a THEN ch[b] ELSE IF k = b THEN ch[a] ELSE ch[k]]

\* what the resolver was invoked with in trace t
ResolverInputs(t) == {t[j].val : j \in {p \in Positions(t, {"invoke"}) : t[p].el = ResolverEl}}

\* C29: when two validators of different locations both accept the request,
\* the execution on the handler with the two registered in the other order,
\* with the other elements behaving the same, has the same context, the same
\* resolver input and the same response.
C29_ValidatorOrder ==
    \A e \in DOMAIN execs :
        \A a, b \in 1..Len(chain) :
            (/\ a < b
             /\ chain[a].kind = "validate" /\ chain[b].kind = "validate"
             /\ chain[a].type # chain[b].type
             /\ Accepts(execs[e], a) /\ Accepts(execs[e], b)) =>
                LET y == RunAloneOn(Swap(chain, a, b), e)
                IN /\ y.context = execs[e].context
                   /\ ResolverInputs(y.trace) = ResolverInputs(execs[e].trace)
                   /\ y.res = execs[e].res
                   /\ y.pc = execs[e].pc
                   /\ y.result = execs[e].result
                   /\ Positions(y.trace, {"next"}) = Positions(execs[e].trace, {"next"})

\* validators of two locations accepted the request, the resolver ran and
\* the transformer's value was sent
C29_Witness ==
    \E e \in DOMAIN execs :
        /\ Len(chain) = 2
        /\ chain[1].kind = "validate" /\ chain[2].kind = "validate"
        /\ chain[1].type # chain[2].type
        /\ Accepts(execs[e], 1) /\ Accepts(execs[e], 2)
        /\ execs[e].pc = "done"
        /\ ResolverInputs(execs[e].trace) # {}
        /\ execs[e].res.wire.via = "json"

\* C30: while a step that was invoked has not settled, its execution stands
\* still: nothing but that step's own sending of the response happens in it,
\* no other element is invoked, the core neither writes nor calls next, and
\* the runner's promise stays pending; the other executions are in the state
\* they reach alone.
C30_UnsettledStepStalls ==
    \A e \in DOMAIN execs :
        LET t == execs[e].trace
        IN \A i \in Positions(t, {"invoke"}) :
              (/\ t[i].el.kind = "step"
               /\ \A j \in Positions(t, {"settle"}) : t[j].el # t[i].el) =>
                 /\ \A j \in (i + 1)..Len(t) : t[j].ev = "write" /\ t[j].el = t[i].el
                 /\ execs[e].pc = "step"
                 /\ execs[e].index = t[i].el.k
                 /\ execs[e].result = "pending"
                 /\ \A o \in DOMAIN execs \ {e} : execs[o] = RunAlone(o)

\* the first step of the first execution has not settled; the second
\* execution went through the chain and was answered
C30_Witness ==
    /\ DOMAIN execs = {1, 2}
    /\ execs[1].pc = "step"
    /\ Len(execs[1].trace) = 1
    /\ execs[2].pc = "done"
    /\ execs[2].res.headersSent
    /\ \E i \in 1..Len(execs[2].trace) : ReturnedAt(execs[2].trace, i, "resolver")

C34_NoUnhandledFailure ==
    \A e \in DOMAIN execs :
        LET x == execs[e]
            t == x.trace
        IN /\ x.result # "rejected"
           /\ Positions(t, {"reject"}) = {}
           /\ (x.pc = "done"
                 /\ \E i \in Positions(t, {"settle"}) : t[i].val.out = "throw") =>
                 \/ Positions(t, {"next"}) # {}
                 \/ \E j \in Positions(t, {"write"}) :
                       t[j].el.kind \in {"dispatch", "executor"} /\ t[j].val.ok

\* the element invoked after el when el returns and the response is not sent
Successor(el) ==
    IF el.kind = "step" /\ el.k < Len(chain) THEN StepEl(el.k + 1)
    ELSE IF el.kind = "step" THEN ResolverEl
    ELSE TransformerEl

\* C32: an element is invoked only by the runner's call or by the return of
\* the element before it, never by a call of the proceed callback: after a
\* step returns with the response not sent the next element is invoked,
\* whether or not the step called the callback, and however often and
\* whenever the steps call it (while in progress or after returning) no
\* element is invoked twice or out of order.
C32_ReturnDrivesProgress ==
    \A e \in DOMAIN execs :
        LET t == execs[e].trace
        IN /\ \A i \in 1..Len(t) :
                 (StepReturnedAt(t, i) /\ ~SentBefore(t, i)) =>
                    /\ Len(t) > i
                    /\ t[i + 1].ev = "invoke"
                    /\ t[i + 1].el = Successor(t[i].el)
           /\ \A j \in Positions(t, {"invoke"}) :
                 /\ j = 1 => t[j].el = StepEl(1)
                 /\ j > 1 =>
                       /\ t[j - 1].ev = "settle"
                       /\ t[j - 1].val.out = "return"
                       /\ t[j].el = Successor(t[j - 1].el)
                 /\ \A m \in Positions(t, {"invoke"}) :
                       /\ m # j => t[m].el # t[j].el
                       /\ (m < j /\ t[j].el.kind = "step") =>
                             t[m].el.kind = "step" /\ t[m].el.k < t[j].el.k

\* the first step returned without calling the proceed callback, the second
\* called it while in progress and returned, the first called it after both
\* had returned, and the resolver was invoked
C32_Witness ==
    \E e \in DOMAIN execs :
        LET t == execs[e].trace
        IN \E i, j, m, n \in 1..Len(t) :
              /\ i < j /\ j < m /\ m < n
              /\ StepReturnedAt(t, i) /\ t[i].el = StepEl(1)
              /\ ProceedCallsOf(SubSeq(t, 1, i), StepEl(1)) = {}
              /\ t[j].ev = "proceed" /\ t[j].el = StepEl(2) /\ t[j].val.out = "pending"
              /\ StepReturnedAt(t, m) /\ t[m].el = StepEl(2)
              /\ t[m + 1] = Event("invoke", ResolverEl, execs[e].context)
              /\ t[n].ev = "proceed" /\ t[n].el = StepEl(1) /\ t[n].val.out = "settled"

\* the trace without the calls of the proceed callback
RECURSIVE WithoutProceed(_)
WithoutProceed(t) ==
    IF t = <<>> THEN <<>>
    ELSE IF t[1].ev = "proceed" THEN WithoutProceed(Tail(t))
    ELSE <<t[1]>> \o WithoutProceed(Tail(t))

C35_ReadsAtExecution ==
    [][\A e \in DOMAIN execs :
          LET t == execs[e].trace
              u == execs'[e].trace
          IN \A i \in (Len(t) + 1)..Len(u) :
                /\ (u[i].ev = "invoke" /\ u[i].el = ResolverEl) =>
                      HasResolver /\ execs'[e].index = Len(chain)
                /\ (u[i].ev = "next" /\ u[i].val = NotAFunction) =>
                      ~HasResolver /\ execs'[e].index = Len(chain)
                /\ (u[i].ev = "invoke" /\ u[i].el = TransformerEl) => HasTransformer
                /\ (ReturnedAt(u, i, "resolver") /\ HasTransformer) =>
                      /\ Len(u) > i
                      /\ u[i + 1].ev = "invoke"
                      /\ u[i + 1].el = TransformerEl
                /\ (StepReturnedAt(u, i) /\ ~SentBefore(u, i)) =>
                      /\ Len(u) > i
                      /\ u[i + 1].ev =
                            IF u[i].el.k = Len(chain) /\ ~HasResolver
                            THEN "next" ELSE "invoke"
                      /\ u[i + 1].el =
                            IF u[i].el.k < Len(chain) THEN StepEl(u[i].el.k + 1)
                            ELSE IF HasResolver THEN ResolverEl ELSE CoreEl
      ]_vars

\* one request was run on the handler as it was when express() was called
\* (its step, then next with the missing resolver's error); a step, the
\* resolver and the transformer were registered afterwards, and the other
\* request ran the second step, the resolver and the transformer
C35_Witness ==
    \E e, f \in DOMAIN execs :
        LET t == execs[e].trace
            u == execs[f].trace
        IN /\ e # f
           /\ execs[e].pc = "done"
           /\ execs[e].index = Len(HandlerAtExpress.chain)
           /\ Len(t) = 3
           /\ t[3] = Event("next", CoreEl, NotAFunction)
           /\ \E i, j, k \in Positions(u, {"invoke"}) :
                 /\ u[i].el = StepEl(Len(HandlerAtExpress.chain) + 1)
                 /\ u[j].el = ResolverEl
                 /\ u[k].el = TransformerEl

\* the invocations of elements of one kind in a trace
InvocationsOf(t, kind) == {i \in Positions(t, {"invoke"}) : t[i].el.kind = kind}

\* C36: when every invoked element settles, an execution on a chain of N
\* steps ends, and at no time has it invoked more than N steps, more than
\* one resolver or more than one transformer.
C36_Terminates ==
    /\ [](\A e \in DOMAIN execs :
             LET t == execs[e].trace
             IN /\ Cardinality(InvocationsOf(t, "step")) <= Len(chain)
                /\ Cardinality(InvocationsOf(t, "resolver")) <= 1
                /\ Cardinality(InvocationsOf(t, "transformer")) <= 1)
    /\ (\E e \in DOMAIN execs : execs[e].pc # "idle")
          ~> (\A e \in DOMAIN execs : execs[e].pc = "done" /\ execs[e].result # "pending")

\* an execution on a chain of MaxSteps steps has ended after invoking every
\* step, the resolver and the transformer
C36_Witness ==
    \E e \in DOMAIN execs :
        LET t == execs[e].trace
        IN /\ execs[e].pc = "done"
           /\ Len(chain) = MaxSteps
           /\ Cardinality(InvocationsOf(t, "step")) = Len(chain)
           /\ Cardinality(InvocationsOf(t, "resolver")) = 1
           /\ Cardinality(InvocationsOf(t, "transformer")) = 1

====
